---------------------------- MODULE Spec2Model ----------------------------
(***************************************************************************)
(* Model of the scrcpy display pipeline (app/src/screen.c): the single     *)
(* slot frame hand-off between the decoder thread (frame sink) and the UI  *)
(* thread, pause/resume frame retention, and the pending-resize latch.     *)
(*                                                                         *)
(* Threads: the producer (decoder) runs sc_screen_frame_sink_open/push/    *)
(* close; the consumer (UI thread) runs sc_screen_handle_event and the     *)
(* public sc_screen_* calls made by the input manager.  The window system  *)
(* (SDL) changes the window flags and queues window events.                *)
(***************************************************************************)
EXTENDS Integers, Sequences, FiniteSets, TLC

(***************************************************************************)
(* Bounds of the model.                                                    *)
(***************************************************************************)
\* number of frames the producer pushes
MaxPush == 3
\* number of window events that may wait in the event queue
MaxQueue == 1
\* number of frames the producer pushes while the window changes state
MaxWinPush == 2
\* number of frames the producer pushes while the user resizes the window
MaxGeoPush == 1
\* number of times the user drags the border of the window
MaxDrag == 1

(***************************************************************************)
(* Program constants.                                                      *)
(***************************************************************************)
DISPLAY_MARGINS == 96
\* "no position requested", and SDL's "centre the window on the display"
SC_WINDOW_POSITION_UNDEFINED == -32768
SDL_WINDOWPOS_CENTERED == 805240832

(***************************************************************************)
(* Data.                                                                   *)
(***************************************************************************)
Size(w, h) == [width |-> w, height |-> h]

\* raw sizes of the frames the decoder produces
FrameSizes == {Size(4, 2), Size(2, 4)}

\* usable bounds of the primary display, as SDL reports them
DisplayUsableBounds == Size(104, 104)

SC_ORIENTATIONS ==
    {"0", "90", "180", "270", "FLIP_0", "FLIP_90", "FLIP_180", "FLIP_270"}

\* orientations the user asks for in the state machine
OrientationInputs == {"0", "90"}

\* an AVFrame holds a picture (id > 0, the rank of its push) or is empty (id 0)
Frame(i, s) == [id |-> i, size |-> s]
EmptyFrame == Frame(0, Size(0, 0))
\* a NULL AVFrame pointer
NULL == [id |-> -1, size |-> Size(0, 0)]

\* raw sizes of the frames, sizes the user drags the window to, and
\* pointer positions on the drawable, for the geometry engine
GeoFrameSizes == {Size(4, 2), Size(2, 4), Size(3, 3), Size(5, 3)}
GeoWindowSizes == {Size(8, 1), Size(1, 8), Size(6, 6), Size(7, 5), Size(3, 9),
                   Size(2, 1)}
GeoCoords == {-1, 0, 2, 5, 7}

Point(x, y) == [x |-> x, y |-> y]

Min(a, b) == IF a < b THEN a ELSE b
\* integer division of C: the quotient is truncated toward zero (b > 0)
cdiv(a, b) == IF a >= 0 THEN a \div b ELSE -((-a) \div b)
Max(a, b) == IF a > b THEN a ELSE b

sc_orientation_is_swap(orientation) ==
    orientation \in {"90", "270", "FLIP_90", "FLIP_270"}

(***************************************************************************)
(* Geometry engine: pure functions.                                        *)
(***************************************************************************)
get_oriented_size(size, orientation) ==
    IF sc_orientation_is_swap(orientation)
    THEN Size(size.height, size.width)
    ELSE Size(size.width, size.height)

get_preferred_display_bounds ==
    Size(Max(0, DisplayUsableBounds.width - DISPLAY_MARGINS),
         Max(0, DisplayUsableBounds.height - DISPLAY_MARGINS))

is_optimal_size(current_size, content_size) ==
    \/ current_size.height
         = (current_size.width * content_size.height) \div content_size.width
    \/ current_size.width
         = (current_size.height * content_size.width) \div content_size.height

\* get_optimal_size that keeps the other dimension of the current size
get_optimal_size_filling(current_size, content_size, within_display_bounds) ==
    IF content_size.width = 0 \/ content_size.height = 0
    THEN current_size
    ELSE IF content_size.width * current_size.height
              > content_size.height * current_size.width
    THEN Size((content_size.width * current_size.height)
                  \div content_size.height, current_size.height)
    ELSE Size(current_size.width,
              (content_size.height * current_size.width)
                  \div content_size.width)

get_optimal_size(current_size, content_size, within_display_bounds) ==
    IF content_size.width = 0 \/ content_size.height = 0
    THEN current_size
    ELSE LET display_size == get_preferred_display_bounds
             window_size ==
                 IF ~within_display_bounds
                 THEN current_size
                 ELSE Size(Min(current_size.width, display_size.width),
                           Min(current_size.height, display_size.height))
             keep_width == content_size.width * window_size.height
                             > content_size.height * window_size.width
         IN  IF is_optimal_size(window_size, content_size)
             THEN window_size
             ELSE IF keep_width
                  THEN Size(window_size.width,
                            (content_size.height * window_size.width)
                                \div content_size.width)
                  ELSE Size((content_size.width * window_size.height)
                                \div content_size.height,
                            window_size.height)

\* get_initial_optimal_size with the aspect ratio of the content inverted
get_initial_optimal_size_inverted(content_size, req_width, req_height) ==
    IF req_width = 0 /\ req_height = 0
    THEN get_optimal_size(content_size, content_size, TRUE)
    ELSE Size(IF req_width # 0 THEN req_width
              ELSE (req_height * content_size.height) \div content_size.width,
              IF req_height # 0 THEN req_height
              ELSE (req_width * content_size.width) \div content_size.height)

get_initial_optimal_size(content_size, req_width, req_height) ==
    IF req_width = 0 /\ req_height = 0
    THEN get_optimal_size(content_size, content_size, TRUE)
    ELSE Size(IF req_width # 0 THEN req_width
              ELSE (req_height * content_size.width) \div content_size.height,
              IF req_height # 0 THEN req_height
              ELSE (req_width * content_size.height) \div content_size.width)

(***************************************************************************)
(* State.                                                                  *)
(*   screen      struct sc_screen (the fields the pipeline uses)           *)
(*   display     struct sc_display: the texture and the picture it holds   *)
(*   sdl         the SDL window: flags, size, visibility, what is shown    *)
(*   fb          struct sc_frame_buffer: the single frame slot             *)
(*   fps_counter struct sc_fps_counter: rendered and skipped frame counts  *)
(*   events      the SDL event queue read by the UI thread                 *)
(*   producer    position of the decoder thread inside frame_sink_push     *)
(*   cpc         position of the UI thread inside the NEW_FRAME handler    *)
(*   out         what the last step did (renders, resizes, ...)            *)
(*   hist        history of the run (counts since the last reset point)    *)
(***************************************************************************)
VARIABLES screen, display, sdl, fb, fps_counter, events, producer, cpc,
          out, hist

vars == <<screen, display, sdl, fb, fps_counter, events, producer, cpc,
          out, hist>>

NoRect == [x |-> 0, y |-> 0, w |-> 0, h |-> 0]

\* what a step did; reset at the start of every step
\*   op          the operation of the program the step ran
\*   renders     calls of sc_screen_render
\*   resizes     calls of sc_sdl_set_window_size
\*   applied     id of the frame given to sc_screen_apply_frame (0: none)
\*   apply_ok    sc_screen_apply_frame returned true
\*   consumed    id of the frame taken from the slot (0: none)
\*   allocs      calls of av_frame_alloc; frees: calls of av_frame_free
\*   shows       calls of sc_sdl_show_window
\*   prepare_failed  sc_display_prepare_texture returned false
\*   posted      SC_EVENT_NEW_FRAME was posted
\*   arg, point  the point given to and returned by
\*               sc_screen_convert_drawable_to_frame_coords
\*   old_unset   resize_for_content was given an old content size that
\*               no frame has set, or one with a zero dimension
\*   ret         FALSE when the operation reported a failure
\*   abort       the assertion that failed, if any
NoOut == [op |-> "none", renders |-> 0, resizes |-> 0, applied |-> 0,
          apply_ok |-> FALSE, consumed |-> 0, allocs |-> 0, frees |-> 0,
          shows |-> 0, prepare_failed |-> FALSE, posted |-> FALSE, arg |-> Point(0, 0), point |-> Point(0, 0),
          old_unset |-> FALSE, ret |-> TRUE, abort |-> ""]

\* the state a UI-thread function works on; op names the operation
\* io: whether SDL_RenderClear and SDL_RenderPresent succeed in this step
Ctx(op) == [screen |-> screen, display |-> display, sdl |-> sdl,
            fb |-> fb, fps |-> fps_counter, events |-> events,
            io |-> [clear_ok |-> TRUE, present_ok |-> TRUE],
            out |-> [NoOut EXCEPT !.op = op]]

\* a failed assertion (or a division by zero) ends the process
check(c, cond, what) ==
    IF cond \/ c.out.abort # "" THEN c ELSE [c EXCEPT !.out.abort = what]

(***************************************************************************)
(* SDL window primitives (util/sdl.c).                                     *)
(***************************************************************************)
is_windowed(c) ==
    ~(c.sdl.fullscreen \/ c.sdl.minimized \/ c.sdl.maximized)

sc_sdl_get_window_size(c) == c.sdl.window_size

\* the render output covers the display while the window is fullscreen or
\* maximized, and the window otherwise (pixel density 1)
sc_sdl_get_render_output_size(c) ==
    IF c.sdl.fullscreen \/ c.sdl.maximized
    THEN DisplayUsableBounds
    ELSE c.sdl.window_size

\* SDL_SetWindowSize refuses a width or a height <= 0, and the wrapper
\* asserts that it succeeded
sc_sdl_set_window_size(c, size) ==
    LET c1 == check(c, size.width > 0 /\ size.height > 0,
                    "sc_sdl_set_window_size: unexpected")
    IN  [c1 EXCEPT !.sdl.window_size = size, !.out.resizes = @ + 1]

sc_sdl_get_window_position(c) == c.sdl.position

\* SDL_SetWindowPosition places a window asked to be centred in the middle
\* of the usable bounds of the display
sc_sdl_set_window_position(c, point) ==
    [c EXCEPT !.sdl.position =
        [x |-> IF point.x = SDL_WINDOWPOS_CENTERED
               THEN (DisplayUsableBounds.width - c.sdl.window_size.width)
                        \div 2
               ELSE point.x,
         y |-> IF point.y = SDL_WINDOWPOS_CENTERED
               THEN (DisplayUsableBounds.height - c.sdl.window_size.height)
                        \div 2
               ELSE point.y]]

sc_sdl_show_window(c) ==
    [c EXCEPT !.sdl.shown = TRUE, !.out.shows = @ + 1]

\* SDL_RenderClear: a failure is logged
sc_sdl_render_clear(c) == c


\* SDL_RenderPresent: the picture of the texture (0: none) becomes the one
\* on screen; the wrapper asserts that it succeeded
sc_sdl_render_present(c) ==
    IF c.io.present_ok
    THEN [c EXCEPT !.sdl.presented = c.display.texture,
                   !.out.renders = @ + 1]
    ELSE check(c, FALSE, "sc_sdl_render_present: unexpected")

(***************************************************************************)
(* screen.c, UI thread.                                                    *)
(***************************************************************************)
\* sc_screen_update_content_rect that leaves the rectangle at the origin
update_content_rect_at_origin(c) ==
    LET content_size == c.screen.content_size
        render_size == sc_sdl_get_render_output_size(c)
    IN  IF content_size.width = 0 \/ content_size.height = 0
        THEN check(c, FALSE, "division by zero")
        ELSE IF content_size.width * render_size.height
                  > content_size.height * render_size.width
        THEN [c EXCEPT !.screen.rect =
                 [x |-> 0, y |-> 0, w |-> render_size.width,
                  h |-> (render_size.width * content_size.height)
                            \div content_size.width]]
        ELSE [c EXCEPT !.screen.rect =
                 [x |-> 0, y |-> 0, h |-> render_size.height,
                  w |-> (render_size.height * content_size.width)
                            \div content_size.height]]

\* sc_screen_update_content_rect that rounds the quotients to the nearest
update_content_rect_rounding(c) ==
    LET content_size == c.screen.content_size
        render_size == sc_sdl_get_render_output_size(c)
    IN  IF content_size.width = 0 \/ content_size.height = 0
        THEN check(c, FALSE, "division by zero")
        ELSE IF is_optimal_size(render_size, content_size)
        THEN [c EXCEPT !.screen.rect =
                 [x |-> 0, y |-> 0,
                  w |-> render_size.width, h |-> render_size.height]]
        ELSE IF content_size.width * render_size.height
                  > content_size.height * render_size.width
        THEN LET rh == (2 * render_size.width * content_size.height
                           + content_size.width)
                           \div (2 * content_size.width)
             IN  [c EXCEPT !.screen.rect =
                     [x |-> 0, w |-> render_size.width, h |-> rh,
                      y |-> (render_size.height - rh) \div 2]]
        ELSE LET rw == (2 * render_size.height * content_size.width
                           + content_size.height)
                           \div (2 * content_size.height)
             IN  [c EXCEPT !.screen.rect =
                     [y |-> 0, h |-> render_size.height, w |-> rw,
                      x |-> (render_size.width - rw) \div 2]]

sc_screen_update_content_rect(c) ==
    LET content_size == c.screen.content_size
        render_size == sc_sdl_get_render_output_size(c)
    IN  IF content_size.width = 0 \/ content_size.height = 0
        THEN check(c, FALSE, "division by zero")
        ELSE IF is_optimal_size(render_size, content_size)
        THEN [c EXCEPT !.screen.rect =
                 [x |-> 0, y |-> 0,
                  w |-> render_size.width, h |-> render_size.height]]
        ELSE IF content_size.width * render_size.height
                  > content_size.height * render_size.width
        THEN LET rh == (render_size.width * content_size.height)
                           \div content_size.width
             IN  [c EXCEPT !.screen.rect =
                     [x |-> 0, w |-> render_size.width, h |-> rh,
                      y |-> (render_size.height - rh) \div 2]]
        ELSE LET rw == (render_size.height * content_size.width)
                           \div content_size.height
             IN  [c EXCEPT !.screen.rect =
                     [y |-> 0, h |-> render_size.height, w |-> rw,
                      x |-> (render_size.width - rw) \div 2]]

\* sc_screen_render that recomputes the rectangle at every call
render_updating_rect(c, update_content_rect) ==
    LET c1 == check(c, c.screen.has_video_window, "render: has_video_window")
    IN  sc_sdl_render_present(
            sc_sdl_render_clear(sc_screen_update_content_rect(c1)))

sc_screen_render(c, update_content_rect) ==
    LET c1 == check(c, c.screen.has_video_window, "render: has_video_window")
        c2 == IF update_content_rect
              THEN sc_screen_update_content_rect(c1)
              ELSE c1
    IN  sc_sdl_render_present(sc_sdl_render_clear(c2))

\* SDL applies the request at once: it sets the flag and queues the event
sc_screen_toggle_fullscreen(c, ok) ==
    LET req_fullscreen == ~c.sdl.fullscreen
    IN  IF ~ok
        THEN c
        ELSE [c EXCEPT !.sdl.fullscreen = req_fullscreen,
                       !.events = Append(@, IF req_fullscreen
                                            THEN "WINDOW_ENTER_FULLSCREEN"
                                            ELSE "WINDOW_LEAVE_FULLSCREEN")]

sc_screen_show_initial_window(c, fs_ok) ==
    LET position ==
            Point(IF c.screen.req.x # SC_WINDOW_POSITION_UNDEFINED
                  THEN c.screen.req.x ELSE SDL_WINDOWPOS_CENTERED,
                  IF c.screen.req.y # SC_WINDOW_POSITION_UNDEFINED
                  THEN c.screen.req.y ELSE SDL_WINDOWPOS_CENTERED)
        window_size ==
            get_initial_optimal_size(c.screen.content_size,
                                     c.screen.req.width, c.screen.req.height)
        c1 == check(c, is_windowed(c), "show_initial_window: is_windowed")
        c2 == sc_sdl_set_window_position(
                  sc_sdl_set_window_size(c1, window_size), position)
        c3 == IF c.screen.req.fullscreen
              THEN sc_screen_toggle_fullscreen(c2, fs_ok)
              ELSE c2
        c4 == sc_sdl_show_window(c3)
    IN  sc_screen_update_content_rect(c4)

resize_for_content(c, old_content_size, new_content_size) ==
    LET c0 == [c EXCEPT !.out.old_unset =
                   \/ @
                   \/ ~c.screen.has_frame
                   \/ old_content_size.width = 0
                   \/ old_content_size.height = 0]
    IN
    IF old_content_size.width = 0 \/ old_content_size.height = 0
    THEN check(c0, FALSE, "division by zero")
    ELSE
    LET window_size == sc_sdl_get_window_size(c0)
        target_size ==
            Size((window_size.width * new_content_size.width)
                     \div old_content_size.width,
                 (window_size.height * new_content_size.height)
                     \div old_content_size.height)
        optimal == get_optimal_size(target_size, new_content_size, TRUE)
        c1 == check(c0, is_windowed(c0), "resize_for_content: is_windowed")
    IN  sc_sdl_set_window_size(c1, optimal)

\* set_content_size recording windowed_content_size at every change
set_content_size_overwriting(c, new_content_size) ==
    LET c1 == IF is_windowed(c)
              THEN resize_for_content(c, c.screen.content_size,
                                      new_content_size)
              ELSE [c EXCEPT
                      !.screen.windowed_content_size = c.screen.content_size,
                      !.screen.resize_pending = TRUE]
    IN  [c1 EXCEPT !.screen.content_size = new_content_size]

set_content_size(c, new_content_size) ==
    LET c1 == IF is_windowed(c)
              THEN resize_for_content(c, c.screen.content_size,
                                      new_content_size)
              ELSE IF ~c.screen.resize_pending
              THEN [c EXCEPT
                      !.screen.windowed_content_size = c.screen.content_size,
                      !.screen.resize_pending = TRUE]
              ELSE c
    IN  [c1 EXCEPT !.screen.content_size = new_content_size]

apply_pending_resize(c) ==
    LET c1 == check(c, is_windowed(c), "apply_pending_resize: is_windowed")
    IN  IF c1.screen.resize_pending
        THEN [resize_for_content(c1, c1.screen.windowed_content_size,
                                 c1.screen.content_size)
                 EXCEPT !.screen.resize_pending = FALSE]
        ELSE c1

\* sc_screen_resize_to_pixel_perfect without the test of is_windowed
resize_to_pixel_perfect_unguarded(c) ==
    sc_sdl_set_window_size(c, c.screen.content_size)

sc_screen_resize_to_pixel_perfect(c) ==
    IF ~is_windowed(c)
    THEN c
    ELSE sc_sdl_set_window_size(c, c.screen.content_size)

sc_screen_resize_to_fit(c) ==
    IF ~is_windowed(c)
    THEN c
    ELSE LET point == sc_sdl_get_window_position(c)
             window_size == sc_sdl_get_window_size(c)
             optimal_size ==
                 get_optimal_size(window_size, c.screen.content_size, FALSE)
             c1 == check(c, optimal_size.width <= window_size.width,
                         "resize_to_fit: width")
             c2 == check(c1, optimal_size.height <= window_size.height,
                         "resize_to_fit: height")
             new_position ==
                 [x |-> point.x
                          + (window_size.width - optimal_size.width) \div 2,
                  y |-> point.y
                          + (window_size.height - optimal_size.height)
                                \div 2]
         IN  sc_sdl_set_window_position(
                 sc_sdl_set_window_size(c2, optimal_size), new_position)

\* sc_screen_set_orientation that rotates the content size it has
set_orientation_from_content(c, orientation) ==
    IF orientation = c.screen.orientation
    THEN c
    ELSE LET new_content_size ==
                 get_oriented_size(c.screen.content_size, orientation)
             c1 == set_content_size(c, new_content_size)
             c2 == [c1 EXCEPT !.screen.orientation = orientation]
         IN  sc_screen_render(c2, TRUE)

sc_screen_set_orientation(c, orientation) ==
    IF orientation = c.screen.orientation
    THEN c
    ELSE LET new_content_size ==
                 get_oriented_size(c.screen.frame_size, orientation)
             c1 == set_content_size(c, new_content_size)
             c2 == [c1 EXCEPT !.screen.orientation = orientation]
         IN  sc_screen_render(c2, TRUE)

\* the transforms with the one of 270 mirrored
orientation_transform_mirrored(orientation, x, y, w, h) ==
    CASE orientation = "0" -> Point(x, y)
      [] orientation = "90" -> Point(y, w - x)
      [] orientation = "180" -> Point(w - x, h - y)
      [] orientation = "270" -> Point(h - y, w - x)
      [] orientation = "FLIP_0" -> Point(w - x, y)
      [] orientation = "FLIP_90" -> Point(h - y, w - x)
      [] orientation = "FLIP_180" -> Point(x, h - y)
      [] orientation = "FLIP_270" -> Point(y, x)

\* the eight transforms of sc_screen_convert_drawable_to_frame_coords on
\* a point (x, y) scaled to the content size (w, h)
orientation_transform(orientation, x, y, w, h) ==
    CASE orientation = "0" -> Point(x, y)
      [] orientation = "90" -> Point(y, w - x)
      [] orientation = "180" -> Point(w - x, h - y)
      [] orientation = "270" -> Point(h - y, x)
      [] orientation = "FLIP_0" -> Point(w - x, y)
      [] orientation = "FLIP_90" -> Point(h - y, w - x)
      [] orientation = "FLIP_180" -> Point(x, h - y)
      [] orientation = "FLIP_270" -> Point(y, x)

sc_screen_convert_drawable_to_frame_coords(c, x, y) ==
    LET w == c.screen.content_size.width
        h == c.screen.content_size.height
        rect == c.screen.rect
    IN  IF rect.w = 0 \/ rect.h = 0
        THEN check(c, FALSE, "convert_drawable_to_frame_coords: rect")
        ELSE [c EXCEPT
                !.out.arg = Point(x, y),
                !.out.point =
                    orientation_transform(c.screen.orientation,
                                          cdiv((x - rect.x) * w, rect.w),
                                          cdiv((y - rect.y) * h, rect.h),
                                          w, h)]

\* display.c: a new texture of the frame's size replaces the old one; it
\* holds no picture yet.  On failure the display keeps what it had.
sc_display_prepare_texture(c, size, ok) ==
    IF ok
    THEN [c EXCEPT !.display = [texture |-> 0, size |-> size]]
    ELSE [c EXCEPT !.out.prepare_failed = TRUE]

\* display.c: the frame's picture is uploaded to the texture
sc_display_update_texture(c, frame, ok) ==
    IF ok THEN [c EXCEPT !.display.texture = frame.id] ELSE c

failed(c) == [c EXCEPT !.out.ret = FALSE]

\* sc_screen_apply_frame that shows the window before it uploads the frame
apply_frame_showing_early(c, prepare_ok, update_ok, fs_ok) ==
    LET c0 == [c EXCEPT !.fps.nr_rendered = @ + 1,
                        !.out.applied = c.screen.frame.id]
        frame == c.screen.frame
        new_frame_size == frame.size
        changed == \/ ~c.screen.has_frame
                   \/ c.screen.frame_size.width # new_frame_size.width
                   \/ c.screen.frame_size.height # new_frame_size.height
        new_content_size ==
            get_oriented_size(new_frame_size, c.screen.orientation)
        c1 == sc_display_prepare_texture(c0, new_frame_size, prepare_ok)
        c2 == [c1 EXCEPT !.screen.frame_size = new_frame_size]
        c3 == IF c.screen.has_frame
              THEN sc_screen_update_content_rect(
                       set_content_size(c2, new_content_size))
              ELSE [c2 EXCEPT !.screen.has_frame = TRUE,
                              !.screen.content_size = new_content_size]
        c4 == IF changed THEN c3 ELSE c0
        c5 == check(c4, c4.screen.has_frame, "apply_frame: has_frame")
        c6 == IF ~c5.screen.has_video_window
              THEN sc_screen_show_initial_window(
                       [c5 EXCEPT !.screen.has_video_window = TRUE], fs_ok)
              ELSE c5
        c7 == sc_display_update_texture(c6, frame, update_ok)
    IN  IF changed /\ ~prepare_ok
        THEN failed(c1)
        ELSE IF ~update_ok
        THEN failed(c7)
        ELSE [sc_screen_render(c7, FALSE) EXCEPT !.out.apply_ok = TRUE]

\* sc_screen_apply_frame that records the frame size before it prepares
\* the texture
apply_frame_sizing_first(c, prepare_ok, update_ok, fs_ok) ==
    LET c0 == [c EXCEPT !.fps.nr_rendered = @ + 1,
                        !.out.applied = c.screen.frame.id]
        frame == c.screen.frame
        new_frame_size == frame.size
        changed == \/ ~c.screen.has_frame
                   \/ c.screen.frame_size.width # new_frame_size.width
                   \/ c.screen.frame_size.height # new_frame_size.height
        new_content_size ==
            get_oriented_size(new_frame_size, c.screen.orientation)
        c1 == [c0 EXCEPT !.screen.frame_size = new_frame_size]
        c2 == sc_display_prepare_texture(c1, new_frame_size, prepare_ok)
        c3 == IF c.screen.has_frame
              THEN sc_screen_update_content_rect(
                       set_content_size(c2, new_content_size))
              ELSE [c2 EXCEPT !.screen.has_frame = TRUE,
                              !.screen.content_size = new_content_size]
        c4 == IF changed THEN c3 ELSE c0
        c5 == sc_display_update_texture(c4, frame, update_ok)
        c6 == check(c5, c5.screen.has_frame, "apply_frame: has_frame")
        c7 == IF ~c6.screen.has_video_window
              THEN sc_screen_show_initial_window(
                       [c6 EXCEPT !.screen.has_video_window = TRUE], fs_ok)
              ELSE c6
    IN  IF changed /\ ~prepare_ok
        THEN failed(c2)
        ELSE IF ~update_ok
        THEN failed(c5)
        ELSE [sc_screen_render(c7, FALSE) EXCEPT !.out.apply_ok = TRUE]

sc_screen_apply_frame(c, prepare_ok, update_ok, fs_ok) ==
    LET c0 == [c EXCEPT !.fps.nr_rendered = @ + 1,
                        !.out.applied = c.screen.frame.id]
        frame == c.screen.frame
        new_frame_size == frame.size
        changed == \/ ~c.screen.has_frame
                   \/ c.screen.frame_size.width # new_frame_size.width
                   \/ c.screen.frame_size.height # new_frame_size.height
        new_content_size ==
            get_oriented_size(new_frame_size, c.screen.orientation)
        c1 == sc_display_prepare_texture(c0, new_frame_size, prepare_ok)
        c2 == [c1 EXCEPT !.screen.frame_size = new_frame_size]
        c3 == IF c.screen.has_frame
              THEN sc_screen_update_content_rect(
                       set_content_size(c2, new_content_size))
              ELSE [c2 EXCEPT !.screen.has_frame = TRUE,
                              !.screen.content_size = new_content_size]
        c4 == IF changed THEN c3 ELSE c0
        c5 == sc_display_update_texture(c4, frame, update_ok)
        c6 == check(c5, c5.screen.has_frame, "apply_frame: has_frame")
        c7 == IF ~c6.screen.has_video_window
              THEN sc_screen_show_initial_window(
                       [c6 EXCEPT !.screen.has_video_window = TRUE], fs_ok)
              ELSE c6
    IN  IF changed /\ ~prepare_ok
        THEN failed(c1)
        ELSE IF ~update_ok
        THEN failed(c5)
        ELSE [sc_screen_render(c7, FALSE) EXCEPT !.out.apply_ok = TRUE]

\* frame_buffer.c: the pending frame moves to the destination and the slot
\* is marked consumed
sc_frame_buffer_consume(c) ==
    [c EXCEPT !.fb = [pending_frame |-> EmptyFrame,
                      pending_frame_consumed |-> TRUE],
              !.out.consumed = c.fb.pending_frame.id]

\* sc_screen_update_frame that, paused, keeps the resume frame it already
\* holds and drops the one it consumes
update_frame_keeping_resume(c, alloc_ok, prepare_ok, update_ok, fs_ok) ==
    IF c.screen.paused
    THEN IF c.screen.resume_frame = NULL /\ ~alloc_ok
         THEN failed(c)
         ELSE IF c.screen.resume_frame = NULL
         THEN [sc_frame_buffer_consume([c EXCEPT !.out.allocs = @ + 1])
                  EXCEPT !.screen.resume_frame = c.fb.pending_frame]
         ELSE sc_frame_buffer_consume(c)
    ELSE sc_screen_apply_frame(
             [sc_frame_buffer_consume(c)
                 EXCEPT !.screen.frame = c.fb.pending_frame],
             prepare_ok, update_ok, fs_ok)

\* sc_screen_update_frame without the test of screen->paused
update_frame_ignoring_pause(c, alloc_ok, prepare_ok, update_ok, fs_ok) ==
    sc_screen_apply_frame(
        [sc_frame_buffer_consume(c)
            EXCEPT !.screen.frame = c.fb.pending_frame],
        prepare_ok, update_ok, fs_ok)

\* sc_screen_update_frame that counts as rendered the frame it keeps for
\* the resume
update_frame_counting_kept(c, alloc_ok, prepare_ok, update_ok, fs_ok) ==
    IF c.screen.paused
    THEN IF c.screen.resume_frame = NULL /\ ~alloc_ok
         THEN failed(c)
         ELSE LET c1 == IF c.screen.resume_frame = NULL
                        THEN [c EXCEPT !.out.allocs = @ + 1]
                        ELSE c
              IN  [sc_frame_buffer_consume(c1)
                      EXCEPT !.screen.resume_frame = c.fb.pending_frame,
                             !.fps.nr_rendered = @ + 1]
    ELSE sc_screen_apply_frame(
             [sc_frame_buffer_consume(c)
                 EXCEPT !.screen.frame = c.fb.pending_frame],
             prepare_ok, update_ok, fs_ok)

sc_screen_update_frame(c, alloc_ok, prepare_ok, update_ok, fs_ok) ==
    IF c.screen.paused
    THEN IF c.screen.resume_frame = NULL /\ ~alloc_ok
         THEN failed(c)
         ELSE LET c1 == IF c.screen.resume_frame = NULL
                        THEN [c EXCEPT !.out.allocs = @ + 1]
                        ELSE c
              IN  [sc_frame_buffer_consume(c1)
                      EXCEPT !.screen.resume_frame = c.fb.pending_frame]
    ELSE sc_screen_apply_frame(
             [sc_frame_buffer_consume(c)
                 EXCEPT !.screen.frame = c.fb.pending_frame],
             prepare_ok, update_ok, fs_ok)

\* sc_screen_set_paused that applies the resume frame and still holds it
set_paused_holding_resume_frame(c, paused, prepare_ok, update_ok, fs_ok) ==
    IF ~paused /\ ~c.screen.paused
    THEN c
    ELSE LET c1 == IF c.screen.paused /\ c.screen.resume_frame # NULL
                   THEN [sc_screen_apply_frame(
                            [c EXCEPT !.screen.frame = c.screen.resume_frame],
                            prepare_ok, update_ok, fs_ok)
                           EXCEPT !.screen.resume_frame =
                                      c.screen.resume_frame]
                   ELSE c
         IN  [c1 EXCEPT !.screen.paused = paused]

\* sc_screen_set_paused that applies the resume frame on resume only
set_paused_applying_on_resume(c, paused, prepare_ok, update_ok, fs_ok) ==
    IF ~paused /\ ~c.screen.paused
    THEN c
    ELSE LET c1 == IF ~paused /\ c.screen.resume_frame # NULL
                   THEN sc_screen_apply_frame(
                            [c EXCEPT !.out.frees = @ + 1,
                                      !.screen.frame = c.screen.resume_frame,
                                      !.screen.resume_frame = NULL],
                            prepare_ok, update_ok, fs_ok)
                   ELSE c
         IN  [c1 EXCEPT !.screen.paused = paused]

\* sc_screen_set_paused that applies the resume frame on re-pause only
set_paused_applying_on_repause(c, paused, prepare_ok, update_ok, fs_ok) ==
    IF ~paused /\ ~c.screen.paused
    THEN c
    ELSE LET c1 == IF paused /\ c.screen.paused
                      /\ c.screen.resume_frame # NULL
                   THEN sc_screen_apply_frame(
                            [c EXCEPT !.out.frees = @ + 1,
                                      !.screen.frame = c.screen.resume_frame,
                                      !.screen.resume_frame = NULL],
                            prepare_ok, update_ok, fs_ok)
                   ELSE c
         IN  [c1 EXCEPT !.screen.paused = paused]

sc_screen_set_paused(c, paused, prepare_ok, update_ok, fs_ok) ==
    IF ~paused /\ ~c.screen.paused
    THEN c
    ELSE LET c1 == IF c.screen.paused /\ c.screen.resume_frame # NULL
                   THEN sc_screen_apply_frame(
                            [c EXCEPT !.out.frees = @ + 1,
                                      !.screen.frame = c.screen.resume_frame,
                                      !.screen.resume_frame = NULL],
                            prepare_ok, update_ok, fs_ok)
                   ELSE c
         IN  [c1 EXCEPT !.screen.paused = paused]

\* the screen's own frame is freed; the frame slot is destroyed with the
\* frame it may hold
sc_screen_destroy(c) ==
    LET c1 == check(c, ~c.screen.open, "destroy: open")
    IN  [c1 EXCEPT !.display = [texture |-> 0, size |-> Size(0, 0)],
                   !.screen.frame = NULL,
                   !.out.frees = @ + 1,
                   !.fb = [pending_frame |-> NULL,
                           pending_frame_consumed |-> TRUE]]

\* sc_screen_handle_event, one case per event type
handle_new_frame(c, alloc_ok, prepare_ok, update_ok, fs_ok) ==
    sc_screen_update_frame(c, alloc_ok, prepare_ok, update_ok, fs_ok)

\* SDL_EVENT_WINDOW_EXPOSED rendering with the rectangle it finds
handle_exposed_keeping_rect(c) ==
    IF c.screen.has_video_window THEN sc_screen_render(c, FALSE) ELSE c

handle_exposed(c) ==
    IF c.screen.has_video_window THEN sc_screen_render(c, TRUE) ELSE c

handle_pixel_size_changed(c) ==
    IF c.screen.has_video_window THEN sc_screen_render(c, TRUE) ELSE c

handle_restored(c) ==
    IF c.screen.has_video_window /\ is_windowed(c)
    THEN sc_screen_render(apply_pending_resize(c), TRUE)
    ELSE c

handle_enter_fullscreen(c) ==
    check(c, c.screen.has_video_window, "enter_fullscreen: has_video_window")

handle_leave_fullscreen(c) ==
    LET c1 == check(c, c.screen.has_video_window,
                    "leave_fullscreen: has_video_window")
    IN  IF is_windowed(c1)
        THEN sc_screen_render(apply_pending_resize(c1), TRUE)
        ELSE c1

(***************************************************************************)
(* screen.c, decoder thread: the frame sink.                               *)
(***************************************************************************)
\* widths and heights the decoder context may announce
OpenDims == {0, 4, 65536}

\* pixel formats and sizes the decoder context may announce at the bounds
\* of what the sink accepts
PixFmts == {"YUV420P", "NV12"}
OpenBoundaryDims == {-1, 0, 1, 65535, 65536}

AVCodecContext(pix_fmt, width, height) ==
    [pix_fmt |-> pix_fmt, width |-> width, height |-> height]

\* sc_screen_frame_sink_open accepting 0xFFFF + 1
frame_sink_open_off_by_one(s, ctx) ==
    IF ctx.pix_fmt # "YUV420P"
    THEN [screen |-> s, ret |-> FALSE, abort |-> "frame_sink_open: pix_fmt"]
    ELSE IF \/ ctx.width <= 0 \/ ctx.width > 65536
            \/ ctx.height <= 0 \/ ctx.height > 65536
    THEN [screen |-> s, ret |-> FALSE, abort |-> ""]
    ELSE [screen |-> [s EXCEPT !.open = TRUE], ret |-> TRUE, abort |-> ""]

\* on the screen s: the screen it leaves, what it returns, and the
\* assertion that failed, if any
sc_screen_frame_sink_open(s, ctx) ==
    IF ctx.pix_fmt # "YUV420P"
    THEN [screen |-> s, ret |-> FALSE, abort |-> "frame_sink_open: pix_fmt"]
    ELSE IF \/ ctx.width <= 0 \/ ctx.width > 65535
            \/ ctx.height <= 0 \/ ctx.height > 65535
    THEN [screen |-> s, ret |-> FALSE, abort |-> ""]
    ELSE [screen |-> [s EXCEPT !.open = TRUE], ret |-> TRUE, abort |-> ""]

\* frame_buffer.c: the frame is copied into the slot, replacing the pending
\* one; previous_skipped tells whether that one had not been consumed.  A
\* failed copy leaves the slot as it was.
sc_frame_buffer_push(slot, frame, copy_ok) ==
    IF copy_ok
    THEN [fb |-> [pending_frame |-> frame, pending_frame_consumed |-> FALSE],
          previous_skipped |-> ~slot.pending_frame_consumed,
          ok |-> TRUE]
    ELSE [fb |-> slot, previous_skipped |-> FALSE, ok |-> FALSE]

\* frame_sink_push_notify with the skipped frame left uncounted
push_notify_uncounted(previous_skipped, post_ok) ==
    IF previous_skipped
    THEN [skipped |-> 0, post |-> FALSE, ret |-> TRUE]
    ELSE [skipped |-> 0, post |-> post_ok, ret |-> post_ok]

\* frame_sink_push_notify with SC_EVENT_NEW_FRAME posted for every frame
push_notify_every_frame(previous_skipped, post_ok) ==
    [skipped |-> IF previous_skipped THEN 1 ELSE 0,
     post |-> post_ok, ret |-> post_ok]

\* frame_sink_push_notify with the result of sc_push_event ignored
push_notify_unchecked(previous_skipped, post_ok) ==
    [skipped |-> IF previous_skipped THEN 1 ELSE 0,
     post |-> ~previous_skipped /\ post_ok, ret |-> TRUE]

\* sc_screen_frame_sink_push after sc_frame_buffer_push succeeded: what it
\* adds to the skipped count, whether it posts SC_EVENT_NEW_FRAME, and what
\* it returns
frame_sink_push_notify(previous_skipped, post_ok) ==
    IF previous_skipped
    THEN [skipped |-> 1, post |-> FALSE, ret |-> TRUE]
    ELSE [skipped |-> 0, post |-> post_ok, ret |-> post_ok]

(***************************************************************************)
(* History of the run, kept for the properties.                            *)
(*   burst_n      pushes that returned true since the slot was last empty, *)
(*                with no consume since the first of them                  *)
(*   burst_base   the skipped count when the slot was last empty           *)
(*   burst_clean  no push of the burst stored a frame and returned false   *)
(*   interrupted  a consume happened inside the push in progress           *)
(*   frozen       id of the last frame consumed while paused, until a      *)
(*                frame is consumed while not paused (0: none)             *)
(*   frozen_calls calls of sc_screen_set_paused since then (capped)        *)
(*   frozen_applies, frozen_renders  applications and renders of it        *)
(*   frozen_ok    an application of it succeeded                           *)
(*   pend_resizes window resizes made while resize_pending was set, since  *)
(*                it was last set (capped)                                 *)
(*   nw_changes   changes of content_size since the window was last in     *)
(*                windowed layout (capped)                                 *)
(*   nw_base      content_size before the first of them                    *)
(*   pend_base    content_size before the step that last set               *)
(*                resize_pending                                           *)
(*   drags        times the user dragged the border of the window          *)
(*   shows        calls of sc_sdl_show_window (capped)                     *)
(*   replaced     resume frames that sc_screen_update_frame replaced by a  *)
(*                later frame                                              *)
(*   applied_ok   a call of sc_screen_apply_frame has returned true        *)
(*   prepare_failed  a call of sc_display_prepare_texture has failed       *)
(*   live_frames  AVFrames the screen allocated and has not freed          *)
(*   destroyed    sc_screen_destroy has run                                *)
(***************************************************************************)
Cap == 2

InitHist == [burst_n |-> 0, burst_base |-> 0, burst_clean |-> TRUE,
             interrupted |-> FALSE,
             frozen |-> 0, frozen_calls |-> 0, frozen_applies |-> 0,
             frozen_renders |-> 0, frozen_ok |-> FALSE,
             pend_resizes |-> 0, nw_changes |-> 0, nw_base |-> Size(0, 0),
             pend_base |-> Size(0, 0), drags |-> 0,
             shows |-> 0, applied_ok |-> FALSE, prepare_failed |-> FALSE,
             replaced |-> 0,
             live_frames |-> 1, destroyed |-> FALSE]

\* the window system or the program left the window flags as in sdl2
HistWindow(h, sdl2) ==
    IF is_windowed([sdl |-> sdl2])
    THEN [h EXCEPT !.nw_changes = 0, !.nw_base = Size(0, 0)]
    ELSE h

\* after a step of the UI thread that ended in c
NextHist(c) ==
    LET consumed == c.out.consumed # 0
        h1 == IF consumed
              THEN [hist EXCEPT !.burst_n = 0,
                                !.burst_base = fps_counter.nr_skipped,
                                !.burst_clean = TRUE,
                                !.interrupted = (producer.pc = "pushed")]
              ELSE hist
        h2 == IF consumed /\ screen.paused
              THEN [h1 EXCEPT !.frozen = c.out.consumed,
                              !.frozen_calls = 0,
                              !.frozen_applies = 0,
                              !.frozen_renders = 0,
                              !.frozen_ok = FALSE]
              ELSE IF consumed
              THEN [h1 EXCEPT !.frozen = 0, !.frozen_calls = 0,
                              !.frozen_applies = 0, !.frozen_renders = 0,
                              !.frozen_ok = FALSE]
              ELSE IF c.out.op = "set_paused" /\ h1.frozen # 0
              THEN [h1 EXCEPT
                      !.frozen_calls = Min(@ + 1, Cap),
                      !.frozen_applies =
                          IF c.out.applied = h1.frozen
                          THEN Min(@ + 1, Cap) ELSE @,
                      !.frozen_renders =
                          IF c.out.applied = h1.frozen
                          THEN Min(@ + c.out.renders, Cap) ELSE @,
                      !.frozen_ok =
                          @ \/ (c.out.applied = h1.frozen /\ c.out.apply_ok)]
              ELSE h1
        h3 == [h2 EXCEPT
                 !.pend_resizes =
                     IF ~screen.resize_pending
                     THEN 0
                     ELSE Min(@ + c.out.resizes, Cap),
                 !.live_frames = @ + c.out.allocs - c.out.frees,
                 !.shows = Min(@ + c.out.shows, Cap),
                 !.applied_ok = @ \/ c.out.apply_ok,
                 !.replaced =
                     IF /\ c.out.consumed # 0
                        /\ screen.paused
                        /\ screen.resume_frame # NULL
                     THEN @ + 1 ELSE @,
                 !.prepare_failed = @ \/ c.out.prepare_failed,
                 !.destroyed = @ \/ c.out.op = "destroy"]
        h4 == IF c.screen.content_size # screen.content_size
              THEN [h3 EXCEPT !.nw_changes = Min(@ + 1, Cap),
                              !.nw_base = IF h3.nw_changes = 0
                                          THEN screen.content_size ELSE @]
              ELSE h3
        h5 == IF ~screen.resize_pending /\ c.screen.resize_pending
              THEN [h4 EXCEPT !.pend_base = screen.content_size]
              ELSE h4
    IN  HistWindow(h5, c.sdl)

(***************************************************************************)
(* Initial state: after sc_screen_init (video enabled).  sc_screen_init   *)
(* sets neither frame_size nor content_size nor windowed_content_size:    *)
(* they hold what the storage held, one value of unset.                   *)
(***************************************************************************)
InitFields(orientations, fullscreens, sizes, positions, unset) ==
    /\ \E o \in orientations, fs \in fullscreens,
          req_width \in sizes, req_height \in sizes,
          req_x \in positions, req_y \in positions,
          frame_size \in unset, content_size \in unset,
          windowed_content_size \in unset :
         screen = [resize_pending |-> FALSE, has_frame |-> FALSE,
                   has_video_window |-> FALSE, paused |-> FALSE,
                   resume_frame |-> NULL, orientation |-> o,
                   frame |-> EmptyFrame,
                   frame_size |-> frame_size, content_size |-> content_size,
                   windowed_content_size |-> windowed_content_size,
                   rect |-> NoRect,
                   open |-> FALSE,
                   req |-> [x |-> req_x, y |-> req_y,
                            width |-> req_width, height |-> req_height,
                            fullscreen |-> fs]]
    /\ display = [texture |-> 0, size |-> Size(0, 0)]
    /\ sdl = [fullscreen |-> FALSE, minimized |-> FALSE, maximized |-> FALSE,
              shown |-> FALSE,
              window_size |->
                  Size(IF screen.req.width # 0 THEN screen.req.width
                       ELSE 256,
                       IF screen.req.height # 0 THEN screen.req.height
                       ELSE 256),
              position |->
                  Point(IF screen.req.x # SC_WINDOW_POSITION_UNDEFINED
                        THEN screen.req.x ELSE 0,
                        IF screen.req.y # SC_WINDOW_POSITION_UNDEFINED
                        THEN screen.req.y ELSE 0),
              presented |-> 0]
    /\ fb = [pending_frame |-> EmptyFrame, pending_frame_consumed |-> TRUE]
    /\ fps_counter = [nr_rendered |-> 0, nr_skipped |-> 0]
    /\ events = <<>>
    /\ producer = [pc |-> "init", previous_skipped |-> FALSE, pushed |-> 0,
                   ctx |-> AVCodecContext("", 0, 0)]
    /\ cpc = "idle"
    /\ out = NoOut
    /\ hist = InitHist

\* the screen in static storage: the fields left unset are zero
InitRequest(orientations, fullscreens, sizes, positions) ==
    InitFields(orientations, fullscreens, sizes, positions, {Size(0, 0)})

\* no window size and no window position requested
InitWith(orientations, fullscreens) ==
    InitRequest(orientations, fullscreens, {0},
                {SC_WINDOW_POSITION_UNDEFINED})

Init == InitWith(OrientationInputs, BOOLEAN)

\* the process runs: no assertion failed, the screen is not destroyed
Running == out.abort = "" /\ cpc # "destroyed"

WindowEvents == {"WINDOW_EXPOSED", "WINDOW_PIXEL_SIZE_CHANGED",
                 "WINDOW_RESTORED", "WINDOW_ENTER_FULLSCREEN",
                 "WINDOW_LEAVE_FULLSCREEN"}

IsWindowEvent(e) == e \in WindowEvents
IsNewFrame(e) == e = "NEW_FRAME"

\* room in the queue for one more window event
QueueRoom == Len(SelectSeq(events, IsWindowEvent)) < MaxQueue

\* the step of the UI thread ended in c: a failed assertion stops the
\* process where it was
Commit(c, next_cpc) ==
    IF c.out.abort # ""
    THEN /\ out' = [NoOut EXCEPT !.op = c.out.op, !.abort = c.out.abort]
         /\ UNCHANGED <<screen, display, sdl, fb, fps_counter, events,
                        producer, cpc, hist>>
    ELSE /\ screen' = c.screen
         /\ display' = c.display
         /\ sdl' = c.sdl
         /\ fb' = c.fb
         /\ fps_counter' = c.fps
         /\ events' = c.events
         /\ out' = c.out
         /\ hist' = NextHist(c)
         /\ cpc' = next_cpc
         /\ UNCHANGED producer

(***************************************************************************)
(* Steps of the decoder thread.                                            *)
(***************************************************************************)
ProducerStep(op, ret, posted) ==
    /\ out' = [NoOut EXCEPT !.op = op, !.ret = ret, !.posted = posted]
    /\ UNCHANGED <<display, sdl, cpc>>

\* the decoder opens the sink with its codec context
Open(fmts, dims) ==
    /\ Running
    /\ producer.pc = "init"
    /\ \E pix_fmt \in fmts, width \in dims, height \in dims :
         LET ctx == AVCodecContext(pix_fmt, width, height)
             r == sc_screen_frame_sink_open(screen, ctx)
         IN  IF r.abort # ""
             THEN /\ out' = [NoOut EXCEPT !.op = "open", !.abort = r.abort]
                  /\ UNCHANGED <<screen, producer, display, sdl, cpc>>
             ELSE /\ screen' = r.screen
                  /\ producer' = [producer EXCEPT
                                    !.pc = IF r.ret THEN "idle" ELSE "ended",
                                    !.ctx = ctx]
                  /\ ProducerStep("open", r.ret, FALSE)
    /\ UNCHANGED <<fb, fps_counter, events, hist>>

SinkOpen == Open({"YUV420P"}, OpenDims)

\* sc_screen_frame_sink_push, up to the return of sc_frame_buffer_push
PushBuffer(max_push, sizes, oks) ==
    /\ Running
    /\ producer.pc = "idle"
    /\ producer.pushed < max_push
    /\ \E size \in sizes, copy_ok \in oks :
         LET r == sc_frame_buffer_push(
                      fb, Frame(producer.pushed + 1, size), copy_ok)
         IN  /\ fb' = r.fb
             /\ producer' =
                  IF r.ok
                  THEN [producer EXCEPT
                          !.pc = "pushed",
                          !.previous_skipped = r.previous_skipped,
                          !.pushed = producer.pushed + 1]
                  ELSE producer
             /\ hist' = IF r.ok
                        THEN [hist EXCEPT !.interrupted = FALSE]
                        ELSE hist
             /\ ProducerStep("push_buffer", r.ok, FALSE)
    /\ UNCHANGED <<screen, fps_counter, events>>

\* sc_screen_frame_sink_push, from there to its return
PushNotify(oks) ==
    /\ Running
    /\ producer.pc = "pushed"
    /\ \E post_ok \in oks :
         LET r == frame_sink_push_notify(producer.previous_skipped, post_ok)
         IN  /\ fps_counter' =
                  [fps_counter EXCEPT !.nr_skipped = @ + r.skipped]
             /\ events' = IF r.post THEN Append(events, "NEW_FRAME")
                          ELSE events
             /\ hist' =
                  IF hist.interrupted
                  THEN [hist EXCEPT
                          !.interrupted = FALSE,
                          !.burst_base = fps_counter.nr_skipped + r.skipped]
                  ELSE IF r.ret
                  THEN [hist EXCEPT !.burst_n = @ + 1]
                  ELSE [hist EXCEPT !.burst_clean = FALSE]
             /\ ProducerStep("push", r.ret, r.post)
    /\ producer' = [producer EXCEPT !.pc = "idle"]
    /\ UNCHANGED <<screen, fb>>

SinkPushBuffer == PushBuffer(MaxPush, FrameSizes, BOOLEAN)

SinkPushNotify == PushNotify(BOOLEAN)

SinkClose ==
    /\ Running
    /\ producer.pc = "idle"
    /\ screen' = [screen EXCEPT !.open = FALSE]
    /\ producer' = [producer EXCEPT !.pc = "ended"]
    /\ ProducerStep("close", TRUE, FALSE)
    /\ UNCHANGED <<fb, fps_counter, events, hist>>

(***************************************************************************)
(* Steps of the UI thread: sc_screen_handle_event on the event at the     *)
(* head of the queue, and the calls the input manager makes for the user's *)
(* shortcuts.  A shortcut is a key event: the window has the keyboard     *)
(* (it is shown and not minimized), and the key event is taken as handled *)
(* ahead of a waiting NEW_FRAME only, never ahead of a window event that  *)
(* was queued before it.                                                   *)
(***************************************************************************)
Shortcut ==
    /\ Running
    /\ cpc = "idle"
    /\ sdl.shown
    /\ ~sdl.minimized
    /\ SelectSeq(events, IsWindowEvent) = <<>>

\* SC_EVENT_NEW_FRAME is taken from the queue
TakeNewFrame ==
    /\ Running
    /\ cpc = "idle"
    /\ events # <<>>
    /\ Head(events) = "NEW_FRAME"
    /\ events' = Tail(events)
    /\ cpc' = "new_frame"
    /\ out' = NoOut
    /\ UNCHANGED <<screen, display, sdl, fb, fps_counter, producer, hist>>

\* sc_screen_update_frame for the event taken
NewFrame(oks, render_oks) ==
    /\ Running
    /\ cpc = "new_frame"
    /\ \E alloc_ok \in oks, prepare_ok \in oks, update_ok \in oks,
          fs_ok \in oks, clear_ok \in render_oks, present_ok \in render_oks :
         Commit(handle_new_frame(
                    [Ctx("update_frame") EXCEPT
                        !.io = [clear_ok |-> clear_ok,
                                present_ok |-> present_ok]],
                    alloc_ok, prepare_ok, update_ok, fs_ok), "idle")

HandleNewFrame == NewFrame(BOOLEAN, {TRUE})

HandleWindowEvent ==
    /\ Running
    /\ cpc = "idle"
    /\ events # <<>>
    /\ Head(events) \in WindowEvents
    /\ LET e == Head(events)
           c == [Ctx(e) EXCEPT !.events = Tail(events)]
       IN  Commit(CASE e = "WINDOW_EXPOSED" -> handle_exposed(c)
                    [] e = "WINDOW_PIXEL_SIZE_CHANGED" ->
                           handle_pixel_size_changed(c)
                    [] e = "WINDOW_RESTORED" -> handle_restored(c)
                    [] e = "WINDOW_ENTER_FULLSCREEN" ->
                           handle_enter_fullscreen(c)
                    [] e = "WINDOW_LEAVE_FULLSCREEN" ->
                           handle_leave_fullscreen(c),
                  "idle")

SetPaused ==
    /\ Shortcut
    /\ \E paused \in BOOLEAN, prepare_ok \in BOOLEAN, update_ok \in BOOLEAN :
         Commit(sc_screen_set_paused(Ctx("set_paused"), paused, prepare_ok,
                                     update_ok, TRUE), "idle")

Orientation(orientations) ==
    /\ Shortcut
    /\ \E orientation \in orientations :
         Commit(sc_screen_set_orientation(Ctx("set_orientation"),
                                          orientation), "idle")

SetOrientation == Orientation(OrientationInputs)

ToggleFullscreen ==
    /\ Shortcut
    /\ \E ok \in BOOLEAN :
         Commit(sc_screen_toggle_fullscreen(Ctx("toggle_fullscreen"), ok),
                "idle")

ResizeToFit ==
    /\ Shortcut
    /\ Commit(sc_screen_resize_to_fit(Ctx("resize_to_fit")), "idle")

ResizeToPixelPerfect ==
    /\ Shortcut
    /\ Commit(sc_screen_resize_to_pixel_perfect(Ctx("resize_to_pixel_perfect")),
              "idle")

\* a pointer event on the video window, given to the input manager, which
\* maps its position to frame coordinates
PointerEvent ==
    /\ Shortcut
    /\ screen.has_video_window
    /\ \E x \in GeoCoords, y \in GeoCoords :
         Commit(sc_screen_convert_drawable_to_frame_coords(
                    Ctx("pointer"), x, y), "idle")

\* shutdown: the decoder has been joined, the event loop has ended
Destroy ==
    /\ Running
    /\ cpc = "idle"
    /\ producer.pc \in {"init", "ended"}
    /\ Commit(sc_screen_destroy(Ctx("destroy")), "destroyed")

(***************************************************************************)
(* Steps of the window system.  SDL updates the window flags when it      *)
(* queues the window event, which it does on the UI thread between two    *)
(* events; the program sees the event only when it reaches the head of    *)
(* the queue.                                                              *)
(***************************************************************************)
WindowStep ==
    /\ Running
    /\ cpc = "idle"
    /\ sdl.shown
    /\ out' = NoOut
    /\ UNCHANGED <<screen, display, fb, fps_counter, producer, cpc>>

WmMinimize ==
    /\ WindowStep
    /\ ~sdl.minimized
    /\ sdl' = [sdl EXCEPT !.minimized = TRUE, !.maximized = FALSE]
    /\ hist' = HistWindow(hist, sdl')
    /\ UNCHANGED events

WmMaximize ==
    /\ WindowStep
    /\ ~sdl.maximized
    /\ QueueRoom
    /\ sdl' = [sdl EXCEPT !.maximized = TRUE, !.minimized = FALSE]
    /\ hist' = HistWindow(hist, sdl')
    /\ events' = Append(events, "WINDOW_PIXEL_SIZE_CHANGED")

WmRestore ==
    /\ WindowStep
    /\ sdl.minimized \/ sdl.maximized
    /\ QueueRoom
    /\ sdl' = [sdl EXCEPT !.minimized = FALSE, !.maximized = FALSE]
    /\ hist' = HistWindow(hist, sdl')
    /\ events' = Append(events, "WINDOW_RESTORED")

\* the user drags the border of the window
WmResize ==
    /\ WindowStep
    /\ is_windowed([sdl |-> sdl])
    /\ QueueRoom
    /\ hist.drags < MaxDrag
    /\ \E size \in GeoWindowSizes :
         /\ size # sdl.window_size
         /\ sdl' = [sdl EXCEPT !.window_size = size]
    /\ hist' = [HistWindow(hist, sdl') EXCEPT !.drags = @ + 1]
    /\ events' = Append(events, "WINDOW_PIXEL_SIZE_CHANGED")

WmExpose ==
    /\ WindowStep
    /\ QueueRoom
    /\ events' = Append(events, "WINDOW_EXPOSED")
    /\ UNCHANGED <<sdl, hist>>

Next ==
    \/ SinkOpen
    \/ SinkPushBuffer
    \/ SinkPushNotify
    \/ SinkClose
    \/ TakeNewFrame
    \/ HandleNewFrame
    \/ HandleWindowEvent
    \/ SetPaused
    \/ SetOrientation
    \/ ToggleFullscreen
    \/ ResizeToFit
    \/ ResizeToPixelPerfect
    \/ Destroy
    \/ WmMinimize
    \/ WmMaximize
    \/ WmRestore
    \/ WmResize
    \/ WmExpose
    \/ PointerEvent

Spec == Init /\ [][Next]_vars

(***************************************************************************)
(* The frame hand-off and pause/resume alone: the decoder thread, the     *)
(* NEW_FRAME handler, the pause shortcut and shutdown, with the window    *)
(* left as it is first shown.                                              *)
(***************************************************************************)
InitSlot == InitWith({"0"}, {FALSE})

NextSlot ==
    \/ SinkOpen
    \/ SinkPushBuffer
    \/ SinkPushNotify
    \/ SinkClose
    \/ TakeNewFrame
    \/ HandleNewFrame
    \/ SetPaused
    \/ Destroy

SpecSlot == InitSlot /\ [][NextSlot]_vars

(***************************************************************************)
(* The window and the pending resize: frames of changing size, the        *)
(* orientation and fullscreen shortcuts, and the window system, with no   *)
(* failing allocation and no pause.                                        *)
(***************************************************************************)
InitWindow == InitWith({"0"}, {FALSE})

WinPushBuffer == PushBuffer(MaxWinPush, FrameSizes, {TRUE})

WinPushNotify == PushNotify({TRUE})

WinNewFrame == NewFrame({TRUE}, {TRUE})

NextWindow ==
    \/ SinkOpen
    \/ WinPushBuffer
    \/ WinPushNotify
    \/ TakeNewFrame
    \/ WinNewFrame
    \/ HandleWindowEvent
    \/ SetOrientation
    \/ ToggleFullscreen
    \/ ResizeToFit
    \/ ResizeToPixelPerfect
    \/ WmMinimize
    \/ WmMaximize
    \/ WmRestore
    \/ WmExpose

SpecWindow == InitWindow /\ [][NextWindow]_vars

(***************************************************************************)
(* The geometry engine: a frame of any of the sizes in any orientation,   *)
(* the window dragged to any of the sizes, then redraws and resize to     *)
(* fit (SpecGeometry) or pointer events (SpecPointer).                     *)
(***************************************************************************)
InitGeometry == InitWith(SC_ORIENTATIONS, {FALSE})

GeoPushBuffer == PushBuffer(MaxGeoPush, GeoFrameSizes, {TRUE})

NextGeometry ==
    \/ SinkOpen
    \/ GeoPushBuffer
    \/ WinPushNotify
    \/ TakeNewFrame
    \/ WinNewFrame
    \/ HandleWindowEvent
    \/ ResizeToFit
    \/ WmResize

SpecGeometry == InitGeometry /\ [][NextGeometry]_vars

NextPointer ==
    \/ SinkOpen
    \/ GeoPushBuffer
    \/ WinPushNotify
    \/ TakeNewFrame
    \/ WinNewFrame
    \/ HandleWindowEvent
    \/ PointerEvent
    \/ WmResize

SpecPointer == InitGeometry /\ [][NextPointer]_vars

(***************************************************************************)
(* Start-up: the window size, the window position and fullscreen asked    *)
(* for on the command line, and frames whose application may fail, up to  *)
(* the first frame shown and after it.                                     *)
(***************************************************************************)
\* window widths and heights (0: none), and window positions, requested
ReqSizes == {0, 3, 7}
ReqPositions == {SC_WINDOW_POSITION_UNDEFINED, 5}

InitStartup == InitRequest(OrientationInputs, BOOLEAN, ReqSizes, ReqPositions)

NextStartup ==
    \/ SinkOpen
    \/ WinPushBuffer
    \/ WinPushNotify
    \/ TakeNewFrame
    \/ HandleNewFrame
    \/ HandleWindowEvent

SpecStartup == InitStartup /\ [][NextStartup]_vars

(***************************************************************************)
(* The content of the window: frames of changing size whose application   *)
(* may fail, pause and resume, the orientation and fullscreen shortcuts.  *)
(***************************************************************************)
NextContent ==
    \/ SinkOpen
    \/ WinPushBuffer
    \/ WinPushNotify
    \/ TakeNewFrame
    \/ HandleNewFrame
    \/ HandleWindowEvent
    \/ SetPaused
    \/ SetOrientation
    \/ ToggleFullscreen

SpecContent == InitWindow /\ [][NextContent]_vars

(***************************************************************************)
(* The public operations called by any caller on the UI thread: between   *)
(* two events, whether or not the first frame has shown the window.  The  *)
(* fields that sc_screen_init leaves unset hold either value of Unset.    *)
(***************************************************************************)
Unset == {Size(0, 0), Size(4, 2)}

InitApi == InitFields({"0"}, {FALSE}, {0}, {SC_WINDOW_POSITION_UNDEFINED},
                      Unset)

ApiCall ==
    /\ Running
    /\ cpc = "idle"
    /\ SelectSeq(events, IsWindowEvent) = <<>>

ApiSetOrientation ==
    /\ ApiCall
    /\ \E orientation \in OrientationInputs :
         Commit(sc_screen_set_orientation(Ctx("set_orientation"),
                                          orientation), "idle")

ApiSetPaused ==
    /\ ApiCall
    /\ \E paused \in BOOLEAN, prepare_ok \in BOOLEAN, update_ok \in BOOLEAN :
         Commit(sc_screen_set_paused(Ctx("set_paused"), paused, prepare_ok,
                                     update_ok, TRUE), "idle")

ApiToggleFullscreen ==
    /\ ApiCall
    /\ \E ok \in BOOLEAN :
         Commit(sc_screen_toggle_fullscreen(Ctx("toggle_fullscreen"), ok),
                "idle")

NextApi ==
    \/ SinkOpen
    \/ WinPushBuffer
    \/ WinPushNotify
    \/ TakeNewFrame
    \/ HandleNewFrame
    \/ HandleWindowEvent
    \/ ApiSetOrientation
    \/ ApiSetPaused
    \/ ApiToggleFullscreen

SpecApi == InitApi /\ [][NextApi]_vars

(***************************************************************************)
(* Faults at the edges of the pipeline: a codec context at the bounds of  *)
(* what the sink accepts, and SDL failing to clear or present.            *)
(***************************************************************************)
FaultOpen == Open(PixFmts, OpenBoundaryDims)

FaultNewFrame == NewFrame({TRUE}, BOOLEAN)

NextFault ==
    \/ FaultOpen
    \/ WinPushBuffer
    \/ WinPushNotify
    \/ TakeNewFrame
    \/ FaultNewFrame
    \/ SinkClose

SpecFault == InitSlot /\ [][NextFault]_vars

(***************************************************************************)
(* Properties of the frame hand-off (SpecSlot).                            *)
(***************************************************************************)
NewFramesQueued == Len(SelectSeq(events, IsNewFrame))

\* C1: after N >= 1 pushes that returned true with no consume in between,
\* the slot holds one unconsumed frame, the one pushed last, and the
\* skipped count has grown by N - 1.
C1_BurstLeavesLastFrame ==
    (producer.pc = "idle" /\ hist.burst_clean /\ hist.burst_n >= 1)
        => /\ ~fb.pending_frame_consumed
           /\ fb.pending_frame.id = producer.pushed
           /\ fps_counter.nr_skipped = hist.burst_base + hist.burst_n - 1

C1_Witness ==
    /\ producer.pc = "idle"
    /\ hist.burst_clean
    /\ hist.burst_n >= 2
    /\ fps_counter.nr_skipped > hist.burst_base
    /\ fb.pending_frame.id = producer.pushed

\* C2: a consume obtains the frame pushed last before it, whatever was
\* pushed and overwritten earlier, and the frame lands where the handler
\* puts it: the live frame, or the resume frame while paused.
C2_ConsumeGetsLatest ==
    out.consumed # 0
        => /\ out.consumed = producer.pushed
           /\ IF screen.paused
              THEN screen.resume_frame.id = out.consumed
              ELSE screen.frame.id = out.consumed

C2_Witness ==
    /\ out.consumed >= 2
    /\ out.consumed = producer.pushed
    /\ fps_counter.nr_skipped >= 1

\* C3: at most one SC_EVENT_NEW_FRAME is queued, and until the screen is
\* destroyed one is queued or being handled only while the slot holds an
\* unconsumed frame.
C3_OneNewFramePending ==
    /\ NewFramesQueued + (IF cpc = "new_frame" THEN 1 ELSE 0) <= 1
    /\ (cpc # "destroyed" /\ (NewFramesQueued = 1 \/ cpc = "new_frame"))
           => ~fb.pending_frame_consumed

C3_Witness ==
    /\ NewFramesQueued = 1
    /\ hist.burst_n >= 2
    /\ producer.pc = "idle"

\* C4 as stated: a push whose copy succeeded reports success.
C4_FailsOnlyOnCopy ==
    out.op = "push" => out.ret

\* C4, amended: a push whose copy succeeded has stored the frame in the
\* slot as the unconsumed pending frame; it reports success when the
\* previous frame was skipped or SC_EVENT_NEW_FRAME was posted, and failure
\* when posting the event failed, the frame staying stored.
C4_FailsOnCopyOrPost ==
    /\ (out.op = "push_buffer" /\ out.ret)
           => /\ producer.pc = "pushed"
              /\ fb.pending_frame.id = producer.pushed
              /\ ~fb.pending_frame_consumed
    /\ (out.op = "push_buffer" /\ ~out.ret) => producer.pc = "idle"
    /\ out.op = "push"
           => /\ out.ret <=> (producer.previous_skipped \/ out.posted)
              /\ ~out.ret => /\ fb.pending_frame.id = producer.pushed
                             /\ ~fb.pending_frame_consumed
                             /\ NewFramesQueued = 0

C4_Witness ==
    /\ out.op = "push"
    /\ ~out.ret
    /\ fb.pending_frame.id = producer.pushed

(***************************************************************************)
(* Properties of pause and resume (SpecSlot).                              *)
(***************************************************************************)
\* C5: handling SC_EVENT_NEW_FRAME while paused only moves the pending
\* frame into resume_frame: the live frame, the texture, frame_size,
\* content_size, the content rectangle, the window and what it shows are
\* unchanged and nothing is rendered.
C5_PausedFrameIsDiverted ==
    [][(cpc = "new_frame" /\ cpc' = "idle" /\ screen.paused)
          => /\ screen'.frame = screen.frame
             /\ display' = display
             /\ sdl' = sdl
             /\ screen'.frame_size = screen.frame_size
             /\ screen'.content_size = screen.content_size
             /\ screen'.rect = screen.rect
             /\ screen'.paused
             /\ out'.renders = 0
             /\ out'.applied = 0
             /\ out'.consumed # 0 => screen'.resume_frame = fb.pending_frame
             /\ out'.consumed = 0 => screen'.resume_frame = screen.resume_frame
      ]_vars

C5_Witness ==
    /\ screen.paused
    /\ out.op = "update_frame"
    /\ out.consumed # 0
    /\ screen.resume_frame.id = out.consumed
    /\ screen.frame.id # out.consumed
    /\ sdl.presented # out.consumed

\* C6 as stated: once a frame was consumed while paused, the calls of
\* sc_screen_set_paused that follow (no consume in between) apply it and
\* render it exactly once in total and leave no resume frame; a call that
\* applies nothing renders nothing.
C6_FrozenFrameRenderedOnce ==
    /\ (hist.frozen # 0 /\ hist.frozen_calls >= 1)
           => /\ hist.frozen_applies = 1
              /\ hist.frozen_renders = 1
              /\ screen.resume_frame = NULL
    /\ (out.op = "set_paused" /\ out.applied = 0) => out.renders = 0

\* C6, amended: it is applied exactly once, by the first of these calls,
\* and no longer held afterwards; it is rendered once when that application
\* succeeds and not at all when the texture could not be prepared or
\* updated.  A call that applies nothing renders nothing.
C6_FrozenFrameAppliedOnce ==
    /\ (hist.frozen # 0 /\ hist.frozen_calls = 0)
           => /\ screen.resume_frame.id = hist.frozen
              /\ hist.frozen_applies = 0
              /\ hist.frozen_renders = 0
    /\ (hist.frozen # 0 /\ hist.frozen_calls >= 1)
           => /\ hist.frozen_applies = 1
              /\ hist.frozen_renders = (IF hist.frozen_ok THEN 1 ELSE 0)
              /\ screen.resume_frame = NULL
    /\ screen.resume_frame # NULL => screen.paused
    /\ (out.op = "set_paused" /\ out.applied = 0) => out.renders = 0

C6_Witness ==
    /\ hist.frozen # 0
    /\ hist.frozen_calls >= 2
    /\ hist.frozen_applies = 1
    /\ hist.frozen_renders = 1
    /\ ~screen.paused
    /\ sdl.presented = hist.frozen

\* sc_screen_set_paused(true) ends while the screen was paused and held a
\* resume frame
Repause ==
    /\ out'.op = "set_paused"
    /\ out'.abort = ""
    /\ screen.paused
    /\ screen.resume_frame # NULL
    /\ screen'.paused

\* C7 as stated: sc_screen_set_paused(true) while paused with a resume
\* frame held makes it the live frame, presents it once, releases the
\* resume frame and stays paused.
C7_RepausePresentsOnce ==
    [][Repause => /\ screen'.frame = screen.resume_frame
                  /\ screen'.resume_frame = NULL
                  /\ out'.renders = 1
                  /\ sdl'.presented = screen.resume_frame.id
      ]_vars

\* C7, amended: it makes the resume frame the live frame, releases the
\* resume frame and stays paused; the frame is presented once when its
\* application succeeds, and not presented when the texture could not be
\* prepared or updated.
C7_RepauseAppliesOnce ==
    [][Repause => /\ screen'.frame = screen.resume_frame
                  /\ screen'.resume_frame = NULL
                  /\ out'.applied = screen.resume_frame.id
                  /\ out'.frees = 1
                  /\ IF out'.apply_ok
                     THEN /\ out'.renders = 1
                          /\ sdl'.presented = screen.resume_frame.id
                     ELSE /\ out'.renders = 0
                          /\ sdl'.presented = sdl.presented
      ]_vars

C7_Witness ==
    /\ out.op = "set_paused"
    /\ out.applied # 0
    /\ screen.paused
    /\ screen.frame.id = out.applied
    /\ out.apply_ok
    /\ out.renders = 1
    /\ sdl.presented = out.applied

\* C8 as stated: the resume frame is never leaked; after sc_screen_destroy
\* no frame the screen allocated is left.
C8_NoFrameLeftAfterDestroy ==
    hist.destroyed => hist.live_frames = 0

(***************************************************************************)
(* Properties of the pending resize (SpecWindow).                          *)
(***************************************************************************)
\* C9 as stated: while a resize is pending the window is resized once, by
\* the handler of WINDOW_RESTORED or WINDOW_LEAVE_FULLSCREEN, which clears
\* resize_pending; no other resize is made.
C9_PendingResizeAppliedOnce ==
    /\ hist.pend_resizes <= 1
    /\ hist.pend_resizes = 1 => ~screen.resize_pending
    /\ (hist.pend_resizes # 0 /\ out.resizes # 0)
           => out.op \in {"WINDOW_RESTORED", "WINDOW_LEAVE_FULLSCREEN"}

\* C10 as stated: set_content_size never takes its windowed branch, which
\* resizes the window, while resize_pending is set: as long as the flag
\* stays set, no resize has been made since it was set.
C10_NoWindowedResizeWhilePending ==
    screen.resize_pending => hist.pend_resizes = 0

\* the window is in windowed layout
Windowed == is_windowed([sdl |-> sdl])

\* C11 as stated: while the window stays non-windowed, after k >= 1 changes
\* of the content size windowed_content_size is the content size that was
\* in effect before the first of them.
C11_BasisIsSizeBeforeFirstChange ==
    (~Windowed /\ hist.nw_changes >= 1)
        => /\ screen.resize_pending
           /\ screen.windowed_content_size = hist.nw_base

PendingResizeHandlers == {"WINDOW_RESTORED", "WINDOW_LEAVE_FULLSCREEN"}

\* C11, amended: while resize_pending stays set, however many times the
\* content size changes, windowed_content_size is the content size that
\* was in effect before the step that set the flag; and the handler that
\* clears the flag resizes the window as resize_for_content does from that
\* size to the current content size.
C11_BasisIsSizeBeforePending ==
    [][/\ screen'.resize_pending
              => screen'.windowed_content_size = hist'.pend_base
       /\ (screen.resize_pending /\ ~screen'.resize_pending)
              => /\ out'.op \in PendingResizeHandlers
                 /\ sdl'.window_size =
                        resize_for_content(Ctx("basis"), hist.pend_base,
                                           screen.content_size
                                          ).sdl.window_size
      ]_vars

C11_Witness ==
    /\ ~Windowed
    /\ hist.nw_changes >= 2
    /\ screen.resize_pending
    /\ screen.windowed_content_size = hist.pend_base
    /\ screen.windowed_content_size = screen.content_size

IsWindowedAssertions == {"resize_for_content: is_windowed",
                         "apply_pending_resize: is_windowed",
                         "show_initial_window: is_windowed"}

\* C12: no step changes the size or the position of the window while the
\* window is fullscreen, maximized or minimized, and no is_windowed
\* assertion of resize_for_content, apply_pending_resize or the initial
\* window show fails.
C12_GeometryOnlyWhenWindowed ==
    [][/\ ~Windowed => /\ sdl'.window_size = sdl.window_size
                       /\ sdl'.position = sdl.position
                       /\ out'.resizes = 0
       /\ out'.abort \notin IsWindowedAssertions
      ]_vars

C12_Witness ==
    /\ out.op \in {"resize_to_fit", "resize_to_pixel_perfect"}
    /\ ~Windowed
    /\ out.resizes = 0
    /\ sdl.window_size # screen.content_size
    /\ screen.resize_pending

(***************************************************************************)
(* Properties of the geometry engine (SpecGeometry).                       *)
(***************************************************************************)
\* C13 as stated: once a frame has been rendered the content rectangle has
\* a width and a height > 0, whatever size the window is given, and the
\* assertion of sc_screen_convert_drawable_to_frame_coords does not fail.
C13_RectNeverEmpty ==
    /\ screen.has_video_window => (screen.rect.w > 0 /\ screen.rect.h > 0)
    /\ out.abort # "convert_drawable_to_frame_coords: rect"

\* the render output size the rectangle was computed for
RenderSize == sc_sdl_get_render_output_size([sdl |-> sdl])

\* C14: the rectangle that sc_screen_update_content_rect computes for a
\* content size C > 0 and a render output size R lies inside R, spans one
\* axis at offset 0, is offset by floor((R - rect) / 2) on the other axis,
\* and its size is optimal for C.
C14_RectInsideCentredOptimal ==
    (out.op = "WINDOW_PIXEL_SIZE_CHANGED" /\ out.renders = 1)
        => LET r == screen.rect
               R == RenderSize
           IN  /\ screen.content_size.width > 0
               /\ screen.content_size.height > 0
               /\ r.x >= 0 /\ r.y >= 0
               /\ r.x + r.w <= R.width
               /\ r.y + r.h <= R.height
               /\ \/ /\ r.x = 0
                     /\ r.w = R.width
                     /\ r.y = (R.height - r.h) \div 2
                  \/ /\ r.y = 0
                     /\ r.h = R.height
                     /\ r.x = (R.width - r.w) \div 2
               /\ is_optimal_size(Size(r.w, r.h), screen.content_size)

C14_Witness ==
    /\ out.op = "WINDOW_PIXEL_SIZE_CHANGED"
    /\ out.renders = 1
    /\ screen.rect.y > 0
    /\ screen.rect.h > 0
    /\ screen.rect.w = RenderSize.width
    /\ screen.orientation = "270"

\* sizes with a zero dimension, for get_optimal_size
ZeroSizes == {Size(0, 0), Size(0, 3), Size(4, 0)}

\* C15: get_optimal_size(S, C, false) exceeds S in no dimension, also for
\* a content size with a zero dimension; so the two assertions of
\* sc_screen_resize_to_fit hold and the window it resizes and recentres
\* stays within the bounds it had.
C15_ResizeToFitShrinks ==
    [][/\ \A S \in GeoWindowSizes \cup ZeroSizes,
             C \in GeoFrameSizes \cup ZeroSizes :
             LET r == get_optimal_size(S, C, FALSE)
             IN  r.width <= S.width /\ r.height <= S.height
       /\ out'.op = "resize_to_fit"
              => /\ out'.abort \notin {"resize_to_fit: width",
                                       "resize_to_fit: height"}
                 /\ sdl'.window_size.width <= sdl.window_size.width
                 /\ sdl'.window_size.height <= sdl.window_size.height
                 /\ sdl'.position.x >= sdl.position.x
                 /\ sdl'.position.y >= sdl.position.y
                 /\ sdl'.position.x + sdl'.window_size.width
                        <= sdl.position.x + sdl.window_size.width
                 /\ sdl'.position.y + sdl'.window_size.height
                        <= sdl.position.y + sdl.window_size.height
      ]_vars

C15_Witness ==
    /\ out.op = "resize_to_fit"
    /\ out.resizes = 1
    /\ sdl.position.y > 0
    /\ is_optimal_size(sdl.window_size, screen.content_size)

(***************************************************************************)
(* Properties of the faults (SpecFault).                                   *)
(***************************************************************************)
InRange(n) == n >= 1 /\ n <= 65535

\* C16: the frame-sink open fails exactly when the width or the height is
\* <= 0 or > 65535, and then changes nothing of the screen, the display,
\* the window or the slot; otherwise it succeeds (and marks the sink open).
C16_OpenChecksDimensions ==
    [][(out'.op = "open" /\ out'.abort = "")
          => /\ out'.ret <=> (/\ InRange(producer'.ctx.width)
                              /\ InRange(producer'.ctx.height))
             /\ ~out'.ret => /\ screen' = screen
                             /\ producer'.pc = "ended"
             /\ out'.ret => /\ screen' = [screen EXCEPT !.open = TRUE]
                            /\ producer'.pc = "idle"
             /\ UNCHANGED <<display, sdl, fb, fps_counter, events>>
      ]_vars

C16_Witness ==
    /\ out.op = "open"
    /\ ~out.ret
    /\ producer.ctx.width = 65535
    /\ producer.ctx.height = 65536
    /\ ~screen.open

\* C17 as stated: the frame-sink open called with another pixel format
\* than the expected one returns failure; the process goes on.
C17_OpenRejectsPixelFormat ==
    out.abort # "frame_sink_open: pix_fmt"

\* C18 as stated: a failure of clearing or presenting the rendering
\* surface never ends the process.
C18_RenderFailureNotFatal ==
    out.abort # "sc_sdl_render_present: unexpected"

(***************************************************************************)
(* Properties of the window event handlers (SpecWindow).                   *)
(***************************************************************************)
\* the rectangle of the current content size in the current render output
ComputedRect ==
    sc_screen_update_content_rect(
        [screen |-> screen, sdl |-> sdl, out |-> NoOut]).screen.rect

\* C19 as stated: after the handling of any geometry-affecting event while
\* the video window is shown (pixel size changed, exposed, restored,
\* entered fullscreen, left fullscreen) the content rectangle is the one
\* computed from the current render output size and content size, and a
\* render has been performed.
C19_EveryGeometryEventRenders ==
    (out.op \in WindowEvents /\ out.abort = "" /\ screen.has_video_window)
        => /\ screen.rect = ComputedRect
           /\ out.renders >= 1

\* C19, amended: this holds after the handling of exposed and pixel size
\* changed, and after the handling of restored and left fullscreen when
\* the window is then windowed; the handler of entered fullscreen neither
\* computes the rectangle nor renders.
C19_RenderingHandlersRefresh ==
    /\ (/\ out.abort = ""
        /\ screen.has_video_window
        /\ \/ out.op \in {"WINDOW_EXPOSED", "WINDOW_PIXEL_SIZE_CHANGED"}
           \/ out.op \in PendingResizeHandlers /\ Windowed)
          => /\ screen.rect = ComputedRect
             /\ out.renders = 1
    /\ (/\ out.abort = ""
        /\ \/ out.op = "WINDOW_ENTER_FULLSCREEN"
           \/ out.op \in PendingResizeHandlers /\ ~Windowed)
          => out.renders = 0

C19_Witness ==
    /\ out.op = "WINDOW_EXPOSED"
    /\ out.abort = ""
    /\ screen.has_video_window
    /\ sdl.fullscreen
    /\ out.renders = 1
    /\ screen.rect = ComputedRect
    /\ screen.rect.w # sdl.window_size.width

(***************************************************************************)
(* Properties of the coordinate conversion (SpecPointer).                  *)
(***************************************************************************)
\* the point of the scaled content that orientation_transform sends to p
inverse_orientation_transform(orientation, p, w, h) ==
    CASE orientation = "0" -> Point(p.x, p.y)
      [] orientation = "90" -> Point(w - p.y, p.x)
      [] orientation = "180" -> Point(w - p.x, h - p.y)
      [] orientation = "270" -> Point(p.y, h - p.x)
      [] orientation = "FLIP_0" -> Point(w - p.x, p.y)
      [] orientation = "FLIP_90" -> Point(w - p.y, h - p.x)
      [] orientation = "FLIP_180" -> Point(p.x, h - p.y)
      [] orientation = "FLIP_270" -> Point(p.y, p.x)

\* the frame point p taken back to the drawable: inverse orientation
\* transform, then the scaling of the content size to the rectangle
convert_frame_to_drawable_coords(s, p) ==
    LET w == s.content_size.width
        h == s.content_size.height
        q == inverse_orientation_transform(s.orientation, p, w, h)
    IN  Point(s.rect.x + cdiv(q.x * s.rect.w, w),
              s.rect.y + cdiv(q.y * s.rect.h, h))

\* the drawable point the last conversion started from, there and back
RoundTrip == convert_frame_to_drawable_coords(screen, out.point)

Abs(n) == IF n < 0 THEN -n ELSE n

Converted == out.op = "pointer" /\ out.abort = ""

\* C20 as stated: a drawable point converted to frame coordinates and
\* back is recovered exactly for orientation 0, and within +/-1 on each
\* axis for each of the eight orientations.
C20_RoundTripWithinOne ==
    Converted
        => /\ screen.orientation = "0" => RoundTrip = out.arg
           /\ Abs(RoundTrip.x - out.arg.x) <= 1
           /\ Abs(RoundTrip.y - out.arg.y) <= 1

\* C20, amended: for each of the eight orientations the point is recovered
\* exactly on an axis where the rectangle has the size of the content, and
\* otherwise within less than rect / content + 1 on that axis, never
\* further from the origin of the rectangle than the point was.
C20_RoundTripWithinScale ==
    Converted
        => LET w == screen.content_size.width
               h == screen.content_size.height
               rect == screen.rect
               dx == out.arg.x - RoundTrip.x
               dy == out.arg.y - RoundTrip.y
           IN  /\ rect.w = w => dx = 0
               /\ rect.h = h => dy = 0
               /\ Abs(dx) * w < rect.w + w
               /\ Abs(dy) * h < rect.h + h
               /\ Abs(RoundTrip.x - rect.x) <= Abs(out.arg.x - rect.x)
               /\ Abs(RoundTrip.y - rect.y) <= Abs(out.arg.y - rect.y)

C20_Witness ==
    /\ Converted
    /\ screen.orientation = "270"
    /\ screen.rect.w # screen.content_size.width
    /\ RoundTrip.x # out.arg.x
    /\ out.point.x # out.arg.x

(***************************************************************************)
(* Properties of the start-up (SpecStartup).                               *)
(***************************************************************************)
\* the step showed the window for the first time
InitialShow == ~screen.has_video_window /\ screen'.has_video_window

\* C21: get_initial_optimal_size(C, rw, rh) is (rw, rh) when both are
\* non-zero; when one only is non-zero the other is the floor of the
\* requested one times the corresponding dimension of C over the other
\* dimension of C; when both are zero it is get_optimal_size(C, C, true).
\* The window is given that size when it is first shown.
C21_InitialSizeFollowsRequest ==
    [][/\ \A C \in GeoFrameSizes, rw \in ReqSizes, rh \in ReqSizes :
            LET size == get_initial_optimal_size(C, rw, rh)
            IN  /\ (rw # 0 /\ rh # 0) => size = Size(rw, rh)
                /\ (rw # 0 /\ rh = 0)
                     => size = Size(rw, (rw * C.height) \div C.width)
                /\ (rw = 0 /\ rh # 0)
                     => size = Size((rh * C.width) \div C.height, rh)
                /\ (rw = 0 /\ rh = 0)
                     => size = get_optimal_size(C, C, TRUE)
       /\ InitialShow
            => LET C == screen'.content_size
                   rw == screen.req.width
                   rh == screen.req.height
               IN  sdl'.window_size =
                       IF rw # 0 /\ rh # 0 THEN Size(rw, rh)
                       ELSE IF rw # 0
                       THEN Size(rw, (rw * C.height) \div C.width)
                       ELSE IF rh # 0
                       THEN Size((rh * C.width) \div C.height, rh)
                       ELSE get_optimal_size(C, C, TRUE)
      ]_vars

C21_Witness ==
    /\ out.shows = 1
    /\ screen.req.width = 0
    /\ screen.req.height = 7
    /\ screen.content_size = Size(4, 2)
    /\ sdl.window_size = Size(14, 7)

\* C22: has_frame and has_video_window change only from false to true,
\* has_video_window implies has_frame, and the initial show of the window
\* (size, position, requested fullscreen) runs exactly once, in the first
\* frame application that succeeds, whatever applications failed before.
C22_ShownOnceOnFirstSuccess ==
    [][/\ screen.has_frame => screen'.has_frame
       /\ screen.has_video_window => screen'.has_video_window
       /\ screen'.has_video_window => screen'.has_frame
       /\ hist'.shows = IF hist'.applied_ok THEN 1 ELSE 0
       /\ out'.shows = 1 <=> (out'.apply_ok /\ ~hist.applied_ok)
       /\ out'.shows = 1
            => /\ InitialShow
               /\ sdl'.shown
               /\ sdl'.window_size =
                    get_initial_optimal_size(screen'.content_size,
                                             screen.req.width,
                                             screen.req.height)
               /\ screen.req.x # SC_WINDOW_POSITION_UNDEFINED
                    => sdl'.position.x = screen.req.x
               /\ screen.req.y # SC_WINDOW_POSITION_UNDEFINED
                    => sdl'.position.y = screen.req.y
               /\ sdl'.fullscreen => screen.req.fullscreen
               /\ screen.req.fullscreen
                    => \/ sdl'.fullscreen
                       \/ "WINDOW_ENTER_FULLSCREEN"
                              \notin {events'[i] : i \in DOMAIN events'}
      ]_vars

\* the second frame is the first one applied with success, and the window
\* is shown fullscreen at the position requested
C22_Witness ==
    /\ out.shows = 1
    /\ out.applied = 2
    /\ fps_counter.nr_rendered = 2
    /\ sdl.fullscreen
    /\ sdl.position = Point(5, 5)
    /\ hist.shows = 1

(***************************************************************************)
(* Properties of the content of the window (SpecContent).                  *)
(***************************************************************************)
\* C23: whenever has_frame is true, after every operation (frame
\* applications that fail included, set_orientation, resume, windowed or
\* not) the content size is the frame size, with width and height swapped
\* iff the orientation is one of the four swap variants.
C23_ContentIsOrientedFrame ==
    screen.has_frame
        => /\ screen.content_size
                = get_oriented_size(screen.frame_size, screen.orientation)
           /\ screen.orientation \in {"90", "270", "FLIP_90", "FLIP_270"}
                => screen.content_size = Size(screen.frame_size.height,
                                              screen.frame_size.width)
           /\ screen.orientation \in {"0", "180", "FLIP_0", "FLIP_180"}
                => screen.content_size = screen.frame_size

C23_Witness ==
    /\ screen.has_frame
    /\ out.op = "set_orientation"
    /\ screen.orientation = "0"
    /\ screen.frame_size = Size(2, 4)
    /\ screen.content_size = Size(2, 4)
    /\ sdl.fullscreen
    /\ screen.resize_pending
    /\ hist.pend_base = Size(4, 2)

\* the step ran sc_screen_apply_frame to its return, on a frame of the raw
\* size that frame_size records
AppliedSameSize ==
    /\ out'.applied # 0
    /\ out'.abort = ""
    /\ screen.has_frame
    /\ screen'.frame.size = screen.frame_size

\* the step left the geometry of the content and of the window as it was
GeometryUnchanged ==
    /\ screen'.frame_size = screen.frame_size
    /\ screen'.content_size = screen.content_size
    /\ screen'.rect = screen.rect
    /\ screen'.resize_pending = screen.resize_pending
    /\ screen'.windowed_content_size = screen.windowed_content_size
    /\ sdl'.window_size = sdl.window_size
    /\ sdl'.position = sdl.position
    /\ sdl'.fullscreen = sdl.fullscreen
    /\ sdl'.maximized = sdl.maximized
    /\ sdl'.minimized = sdl.minimized

\* C24 as stated: the application of a frame of the current frame size,
\* after the first frame, leaves frame_size, content_size, the rectangle,
\* the pending resize and the geometry of the window unchanged.
C24_SameSizeKeepsGeometry ==
    [][AppliedSameSize => GeometryUnchanged]_vars

\* C24, amended: this holds once the window has been shown; the frame is
\* then rendered once with the rectangle computed before when its upload
\* succeeds, and not at all when it fails.
C24_SameSizeKeepsGeometryOnceShown ==
    [][(AppliedSameSize /\ screen.has_video_window)
          => /\ GeometryUnchanged
             /\ out'.resizes = 0
             /\ out'.shows = 0
             /\ out'.apply_ok
                  => /\ out'.renders = 1
                     /\ sdl'.presented = out'.applied
             /\ ~out'.apply_ok
                  => /\ out'.renders = 0
                     /\ sdl'.presented = sdl.presented
      ]_vars

\* the second frame has the size of the first and is applied in
\* fullscreen, where a frame of another size would set resize_pending
C24_Witness ==
    /\ out.applied = 2
    /\ out.apply_ok
    /\ out.renders = 1
    /\ hist.shows = 1
    /\ out.shows = 0
    /\ sdl.fullscreen
    /\ ~screen.resize_pending
    /\ sdl.presented = 2

\* C25: when the preparation of the texture for a frame of a new raw size
\* fails, the application of the frame reports the failure and leaves
\* frame_size, content_size, has_frame, has_video_window, the rectangle,
\* the pending resize and the geometry of the window unchanged; the slot
\* is left consumed and the UI thread goes on, so that later frames are
\* consumed and applied.
C25_PrepareFailureChangesNothing ==
    [][(out'.prepare_failed /\ out'.abort = "")
          => /\ ~out'.ret
             /\ ~out'.apply_ok
             /\ out'.applied # 0
             /\ GeometryUnchanged
             /\ screen'.has_frame = screen.has_frame
             /\ screen'.has_video_window = screen.has_video_window
             /\ screen'.orientation = screen.orientation
             /\ sdl' = sdl
             /\ out'.renders = 0
             /\ cpc' = "idle"
             /\ out'.op = "update_frame"
                  => /\ out'.consumed = out'.applied
                     /\ fb'.pending_frame_consumed
      ]_vars

\* the preparation failed for the first frame, and the second frame is
\* consumed, applied and rendered
C25_Witness ==
    /\ hist.prepare_failed
    /\ out.op = "update_frame"
    /\ out.consumed = 2
    /\ out.apply_ok
    /\ out.renders = 1
    /\ fps_counter.nr_rendered = 2
    /\ sdl.presented = 2

(***************************************************************************)
(* The two sizings of the geometry engine (SpecGeometry).                  *)
(***************************************************************************)
\* the rectangle sc_screen_update_content_rect computes for the content
\* size C in a render output of size R
ContentRect(R, C) ==
    sc_screen_update_content_rect(
        [screen |-> [content_size |-> C, rect |-> NoRect],
         sdl |-> [fullscreen |-> FALSE, maximized |-> FALSE,
                  minimized |-> FALSE, window_size |-> R],
         out |-> NoOut]).screen.rect

\* C26: for every render output size R and content size C > 0 the width
\* and the height of the rectangle that sc_screen_update_content_rect
\* computes are get_optimal_size(R, C, false).
C26_RectSizeIsOptimalSize ==
    /\ \A R \in GeoWindowSizes \cup GeoFrameSizes :
         \A F \in GeoFrameSizes, o \in {"0", "90"} :
            LET C == get_oriented_size(F, o)
                rect == ContentRect(R, C)
            IN  Size(rect.w, rect.h) = get_optimal_size(R, C, FALSE)
    /\ (out.op \in WindowEvents /\ out.renders = 1)
         => Size(screen.rect.w, screen.rect.h)
                = get_optimal_size(RenderSize, screen.content_size, FALSE)

\* the window is not optimal for the content and the rectangle keeps its
\* height
C26_Witness ==
    /\ out.op = "WINDOW_PIXEL_SIZE_CHANGED"
    /\ out.renders = 1
    /\ RenderSize = Size(7, 5)
    /\ screen.content_size = Size(3, 5)
    /\ screen.rect = [x |-> 2, y |-> 0, w |-> 3, h |-> 5]

(***************************************************************************)
(* Wake-ups and accounting of the frame hand-off (SpecSlot).               *)
(***************************************************************************)
\* C27 as stated: whenever the slot holds an unconsumed frame, with the
\* producer outside sc_screen_frame_sink_push and the UI thread not
\* handling SC_EVENT_NEW_FRAME, an SC_EVENT_NEW_FRAME is pending, also
\* after a failed post of the event and after a failed allocation of the
\* resume frame.
C27_NoLostWakeup ==
    (/\ Running
     /\ ~fb.pending_frame_consumed
     /\ producer.pc # "pushed"
     /\ cpc = "idle")
        => NewFramesQueued >= 1

(***************************************************************************)
(* Range of the coordinate conversion (SpecPointer).                       *)
(***************************************************************************)
\* the drawable point p lies inside the content rectangle
InsideRect(p) ==
    /\ screen.rect.x <= p.x /\ p.x < screen.rect.x + screen.rect.w
    /\ screen.rect.y <= p.y /\ p.y < screen.rect.y + screen.rect.h

\* C28 as stated: for each of the eight orientations, a drawable point
\* inside the content rectangle is converted to a point inside the raw
\* frame: 0 <= x < frame width and 0 <= y < frame height.
C28_ConvertedPointInsideFrame ==
    (Converted /\ InsideRect(out.arg))
        => /\ 0 <= out.point.x /\ out.point.x < screen.frame_size.width
           /\ 0 <= out.point.y /\ out.point.y < screen.frame_size.height

(***************************************************************************)
(* The frames the screen holds (SpecSlot).                                 *)
(***************************************************************************)
\* C29: in every state from sc_screen_init to sc_screen_destroy a resume
\* frame is held only while the screen is paused, and screen->frame is
\* never NULL, whatever calls of sc_screen_set_paused and frame
\* notifications came before, failed applications included.
C29_ResumeFrameOnlyWhilePaused ==
    /\ screen.resume_frame # NULL => screen.paused
    /\ cpc # "destroyed" => screen.frame # NULL

\* the screen resumed with the frame it held, whose application failed
C29_Witness ==
    /\ out.op = "set_paused"
    /\ ~screen.paused
    /\ screen.resume_frame = NULL
    /\ out.frees = 1
    /\ out.applied = 2
    /\ ~out.apply_ok
    /\ screen.frame.id = 2

\* neither thread is inside an operation
Quiescent ==
    /\ Running
    /\ producer.pc # "pushed"
    /\ cpc = "idle"

\* frames held unconsumed: in the slot, in the resume frame
Held ==
    (IF fb.pending_frame_consumed THEN 0 ELSE 1)
        + (IF screen.resume_frame = NULL THEN 0 ELSE 1)

\* C30 as stated: whenever neither thread is inside an operation, the
\* number of frames pushed is the rendered count plus the skipped count
\* plus the number of frames held unconsumed, also with pause and resume.
C30_FramesAccounted ==
    Quiescent
        => producer.pushed
               = fps_counter.nr_rendered + fps_counter.nr_skipped + Held

\* C30, amended: the frames that were replaced in the resume frame by a
\* later frame while the screen was paused are counted nowhere; the
\* number of frames pushed is the sum above plus their number.
C30_FramesAccountedWithReplaced ==
    Quiescent
        => producer.pushed
               = fps_counter.nr_rendered + fps_counter.nr_skipped + Held
                     + hist.replaced

C30_Witness ==
    /\ Quiescent
    /\ producer.pushed = 3
    /\ hist.replaced = 1
    /\ fps_counter.nr_skipped = 0
    /\ fps_counter.nr_rendered = 2
    /\ Held = 0
    /\ ~screen.paused


(***************************************************************************)
(* C31: for every sequence of the public operations on an initialised     *)
(* video screen (sc_screen_set_orientation, sc_screen_set_paused,         *)
(* sc_screen_toggle_fullscreen, sc_screen_handle_event), the ones issued  *)
(* before the first frame has been applied included, every render and     *)
(* every fullscreen-event handler runs with has_video_window true, and    *)
(* resize_for_content is never given an unset or zero old content size.   *)
(***************************************************************************)
HasVideoWindowAssertions ==
    {"render: has_video_window", "enter_fullscreen: has_video_window",
     "leave_fullscreen: has_video_window"}

C31_PublicOperationsSafe ==
    /\ out.abort \notin HasVideoWindowAssertions
    /\ out.abort # "division by zero"
    /\ ~out.old_unset
=============================================================================
